---- MODULE Spec2Model ----
(***************************************************************************)
(* Telemetry pipeline of infra-gemeo-digital.                              *)
(*                                                                         *)
(*   collector  (src/infra/collector/collector.py): samples the OS network *)
(*              counters twice, probes TCP latency, writes one             *)
(*              network_metrics point per tick.                            *)
(*   analyzer   (src/infra/predictor/predictor.py): reads the trailing     *)
(*              window of network_metrics, computes rolling statistics,    *)
(*              an anomaly flag and a health assessment, and writes one    *)
(*              server_analysis point per tick.                            *)
(*                                                                         *)
(* Units.  Throughput is kept in hundredths of a Mbit/s, latency in ms,    *)
(* health_score in tenths, time in minutes since local midnight.  The      *)
(* Python floats are modelled as exact numbers: a mean is the rational     *)
(* num/den, a standard deviation is the square root of ss/d (d = 0 is the  *)
(* 0/0 = NaN pandas yields for a single-row window).                       *)
(***************************************************************************)
EXTENDS Integers, Sequences, FiniteSets, TLC

VARIABLES
    cpc,              \* collector: position in main()'s loop
    network_stats,    \* collector: main()'s local network_stats (None = <<>>)
    clog,             \* collector: last line written to the logger
    network_metrics,  \* store: the persisted network_metrics series
    apc,              \* analyzer: position in main()'s loop
    alog,             \* analyzer: last line written to the logger
    server_analysis,  \* store: the persisted server_analysis series
    now,              \* wall clock, minutes since midnight
    fn_in,            \* argument of the function under test (pure specifications)
    fn_out,           \* its result, <<>> before the call
    elapsed,          \* collector: seconds since the current tick started
    last_period       \* collector: seconds between the last two tick starts

vars == <<cpc, network_stats, clog, network_metrics, apc, alog, server_analysis,
          now, fn_in, fn_out, elapsed, last_period>>

timing_vars == <<elapsed, last_period>>

pipeline_vars == <<cpc, network_stats, clog, network_metrics, apc, alog,
                   server_analysis, now>>

(***************************************************************************)
(* Bounds of the model.                                                    *)
(***************************************************************************)
MaxPoints == 3
MaxClockSteps == 2

\* The bucket holds at most MaxPoints points, of both series together; a
\* tick starts only while there is room for the point it may write.
StoreHasRoom == Len(network_metrics) + Len(server_analysis) < MaxPoints

(***************************************************************************)
(* Python's None and optional values: <<>> is None, <<x>> is the value x.  *)
(***************************************************************************)
None == <<>>
Some(x) == <<x>>

Abs(x) == IF x < 0 THEN -x ELSE x

RECURSIVE SumSeq(_)
SumSeq(s) == IF s = <<>> THEN 0 ELSE Head(s) + SumSeq(Tail(s))

(***************************************************************************)
(* Wall clock.  It advances in steps shorter than the analysis window, so  *)
(* that a record is first inside the window and later outside it, and it   *)
(* starts shortly before the hour boundaries 9 and 18.                     *)
(***************************************************************************)
WindowMinutes == 5
ClockStep == WindowMinutes - 2
StartTimes == {8 * 60 + 57, 17 * 60 + 57}
HourOf(t) == (t \div 60) % 24

(***************************************************************************)
(* OS counters, as psutil.net_io_counters() returns them: cumulative,      *)
(* non-negative.  6250 bytes in the one-second sample are 0.05 Mbit/s.     *)
(* SnapshotPairs are the (first, second) readings of one sample: an idle   *)
(* interface, traffic in both directions, and a reset of the sent or of    *)
(* the received counter between the two readings (the other one growing).  *)
(***************************************************************************)
Idle ==
    [bytes_sent |-> 93750, bytes_recv |-> 12500, packets_sent |-> 70,
     packets_recv |-> 9, errin |-> 1, errout |-> 0]

Traffic ==
    [bytes_sent |-> 187500, bytes_recv |-> 25000, packets_sent |-> 140,
     packets_recv |-> 18, errin |-> 1, errout |-> 1]

SnapshotPairs ==
    { <<Idle, Idle>>,
      <<Idle, Traffic>>,
      <<Idle, [Traffic EXCEPT !.bytes_sent = 0, !.packets_sent = 0, !.errout = 0]>>,
      <<Idle, [Traffic EXCEPT !.bytes_recv = 0, !.packets_recv = 0, !.errin = 0]>> }

LatencySamples == {20, 90}

\* (bytes * 8 / 1_000_000) Mbit/s, in hundredths of a Mbit/s
Mbps(delta_bytes) == (delta_bytes * 8) \div 10000

(***************************************************************************)
(* collector.py                                                            *)
(***************************************************************************)
get_network_stats(os_ok, first, second) ==
    IF ~os_ok THEN None
    ELSE Some([download_speed |-> Mbps(second.bytes_recv - first.bytes_recv),
               upload_speed   |-> Mbps(second.bytes_sent - first.bytes_sent),
               packets_sent   |-> second.packets_sent,
               packets_recv   |-> second.packets_recv,
               errors_in      |-> second.errin,
               errors_out     |-> second.errout,
               latency        |-> None])

\* Plausible slip: the upload and packet tests are left out of the validation
InvalidDownloadOnly(stats) ==
    stats.download_speed < 0

\* the validation of write_to_influxdb, line 109
Invalid(stats) ==
    \/ stats.download_speed < 0
    \/ stats.upload_speed < 0
    \/ stats.packets_sent < 0
    \/ stats.packets_recv < 0

\* Plausible slip: the write is issued a second time after it succeeded
WriteAppendsTwice(series, stats, store_ok, t) ==
    LET point == [download_speed |-> stats.download_speed,
                  upload_speed   |-> stats.upload_speed,
                  packets_sent   |-> stats.packets_sent,
                  packets_recv   |-> stats.packets_recv,
                  errors_in      |-> stats.errors_in,
                  errors_out     |-> stats.errors_out,
                  latency        |-> stats.latency[1],
                  time           |-> t]
    IN IF Invalid(stats)
       THEN [series |-> series, log |-> None]
       ELSE IF stats.latency = None
       THEN [series |-> series, log |-> Some("write_error: TypeError")]
       ELSE IF ~store_ok
       THEN [series |-> series, log |-> Some("write_error: store")]
       ELSE [series |-> Append(Append(series, point), point),
             log |-> Some("saved")]

\* Plausible slip: the point's time is cut to the store's clock unit, so a
\* second write within the same unit replaces the point written before
WriteReplacesSameTime(series, stats, store_ok, t) ==
    LET point == [download_speed |-> stats.download_speed,
                  upload_speed   |-> stats.upload_speed,
                  packets_sent   |-> stats.packets_sent,
                  packets_recv   |-> stats.packets_recv,
                  errors_in      |-> stats.errors_in,
                  errors_out     |-> stats.errors_out,
                  latency        |-> stats.latency[1],
                  time           |-> t]
    IN IF Invalid(stats)
       THEN [series |-> series, log |-> None]
       ELSE IF stats.latency = None
       THEN [series |-> series, log |-> Some("write_error: TypeError")]
       ELSE IF ~store_ok
       THEN [series |-> series, log |-> Some("write_error: store")]
       ELSE IF series # <<>> /\ series[Len(series)].time = t
       THEN [series |-> [series EXCEPT ![Len(series)] = point],
             log |-> Some("saved")]
       ELSE [series |-> Append(series, point), log |-> Some("saved")]

\* Outcome of write_to_influxdb(client, stats) at time t: the series after
\* the call and the line logged (None = nothing is logged).  store_ok is the
\* outcome of write_api.write(), reached only by a valid, complete record.
write_to_influxdb(series, stats, store_ok, t) ==
    IF Invalid(stats)
    THEN [series |-> series, log |-> None]
    ELSE IF stats.latency = None      \* float(None) raises TypeError
    THEN [series |-> series, log |-> Some("write_error: TypeError")]
    ELSE IF ~store_ok
    THEN [series |-> series, log |-> Some("write_error: store")]
    ELSE [series |-> Append(series,
                        [download_speed |-> stats.download_speed,
                         upload_speed   |-> stats.upload_speed,
                         packets_sent   |-> stats.packets_sent,
                         packets_recv   |-> stats.packets_recv,
                         errors_in      |-> stats.errors_in,
                         errors_out     |-> stats.errors_out,
                         latency        |-> stats.latency[1],
                         time           |-> t]),
          log |-> Some("saved")]

\* Outcomes of the latency probe: None on a failed or timed-out connect
LatencyOutcomes == {None} \cup {Some(l) : l \in LatencySamples}

\* network_stats = get_network_stats()
CollectorSample ==
    /\ cpc = "sample"
    /\ StoreHasRoom
    /\ \E os_ok \in BOOLEAN, pair \in SnapshotPairs :
         /\ network_stats' = get_network_stats(os_ok, pair[1], pair[2])
         /\ clog' = IF os_ok THEN "rates" ELSE "sample_error"
    /\ cpc' = "probe"
    /\ UNCHANGED <<network_metrics, apc, alog, server_analysis, now, fn_in, fn_out, timing_vars>>

\* network_stats['latency'] = get_latency()
CollectorProbe ==
    /\ cpc = "probe"
    /\ \E latency \in LatencyOutcomes :
         IF network_stats = None
         THEN \* item assignment on None: TypeError, caught by main's except
              /\ cpc' = "exited"
              /\ clog' = "main_loop_error"
              /\ UNCHANGED network_stats
         ELSE /\ network_stats' = Some([network_stats[1] EXCEPT !.latency = latency])
              /\ clog' = IF latency = None THEN "latency_error" ELSE clog
              /\ cpc' = "write"
    /\ UNCHANGED <<network_metrics, apc, alog, server_analysis, now, fn_in, fn_out, timing_vars>>

\* if network_stats: write_to_influxdb(client, network_stats)
CollectorWrite ==
    /\ cpc = "write"
    /\ \E store_ok \in BOOLEAN :
         LET r == write_to_influxdb(network_metrics, network_stats[1], store_ok, now)
         IN /\ network_metrics' = r.series
            /\ clog' = IF r.log = None THEN clog ELSE r.log[1]
    /\ cpc' = "sleep"
    /\ UNCHANGED <<network_stats, apc, alog, server_analysis, now, fn_in, fn_out, timing_vars>>

(***************************************************************************)
(* One iteration of the collector's loop as a single step, for the         *)
(* specification of the two loops together.  Sampling and probing touch    *)
(* only main()'s local network_stats; the one access to shared state, and  *)
(* the one reading of the clock, is the write, so the iteration is taken   *)
(* at the moment of its write.                                             *)
(***************************************************************************)
\* Plausible slip: the store's failure is not caught around the write and
\* reaches main()'s handler
MainIterationStoreFailureEscapes(series, os_ok, first, second, latency, store_ok, t) ==
    LET sampled == get_network_stats(os_ok, first, second)
    IN IF sampled = None
       THEN [series |-> series, log |-> "main_loop_error", exited |-> TRUE]
       ELSE LET stats == [sampled[1] EXCEPT !.latency = latency]
                r     == write_to_influxdb(series, stats, store_ok, t)
            IN [series |-> r.series,
                log    |-> IF r.log # None THEN r.log[1]
                           ELSE IF latency = None THEN "latency_error"
                           ELSE "rates",
                exited |-> r.log = Some("write_error: store")]

main_iteration(series, os_ok, first, second, latency, store_ok, t) ==
    LET sampled == get_network_stats(os_ok, first, second)
    IN IF sampled = None
       THEN [series |-> series, log |-> "main_loop_error", exited |-> TRUE]
       ELSE LET stats == [sampled[1] EXCEPT !.latency = latency]
                r     == write_to_influxdb(series, stats, store_ok, t)
            IN [series |-> r.series,
                log    |-> IF r.log # None THEN r.log[1]
                           ELSE IF latency = None THEN "latency_error"
                           ELSE "rates",
                exited |-> FALSE]

\* What one iteration meets: a failing counter read (nothing else is then
\* looked at), or a sample and a probe outcome with the store up, or the
\* store failing on the write of a valid, complete record.
IterationInputs ==
    {[os_ok |-> FALSE, pair |-> <<Idle, Idle>>, latency |-> None, store_ok |-> TRUE]}
    \cup {[os_ok |-> TRUE, pair |-> p, latency |-> l, store_ok |-> TRUE] :
             p \in SnapshotPairs, l \in LatencyOutcomes}
    \cup {[os_ok |-> TRUE, pair |-> p, latency |-> Some(l), store_ok |-> FALSE] :
             p \in {q \in SnapshotPairs :
                       ~Invalid(get_network_stats(TRUE, q[1], q[2])[1])},
             l \in LatencySamples}

CollectorTick ==
    /\ cpc = "sample"
    /\ StoreHasRoom
    /\ \E in \in IterationInputs :
         LET r == main_iteration(network_metrics, in.os_ok, in.pair[1], in.pair[2],
                                 in.latency, in.store_ok, now)
         IN /\ network_metrics' = r.series
            /\ clog' = r.log
            /\ cpc' = IF r.exited THEN "exited" ELSE "sleep"
    /\ UNCHANGED <<network_stats, apc, alog, server_analysis, now, fn_in, fn_out, timing_vars>>

\* time.sleep(COLLECTION_INTERVAL - 1)
CollectorSleep ==
    /\ cpc = "sleep"
    /\ cpc' = "sample"
    /\ UNCHANGED <<network_stats, clog, network_metrics, apc, alog, server_analysis,
                   now, fn_in, fn_out, timing_vars>>

(***************************************************************************)
(* predictor.py                                                            *)
(***************************************************************************)
\* Plausible slip: range(9, 19), the end hour taken as inclusive
PeakHoursThrough18 == 9 .. 18

\* self.thresholds, in hundredths of a Mbit/s and in ms
peak_hours == 9 .. 17

thresholds ==
    [upload  |-> [peak     |-> [optimal |-> 75, warning |-> 50, critical |-> 25],
                  off_peak |-> [optimal |-> 85, warning |-> 60, critical |-> 35]],
     latency |-> [peak     |-> [optimal |-> 30, warning |-> 50, critical |-> 100],
                  off_peak |-> [optimal |-> 20, warning |-> 40, critical |-> 80]]]

\* range(start: -5m) over the network_metrics series, read at time t
Window(series, t) == SelectSeq(series, LAMBDA r : r.time >= t - WindowMinutes)

get_recent_data(series, t, query_ok) ==
    IF ~query_ok THEN [data |-> None, log |-> Some("query_error")]
    ELSE IF Window(series, t) = <<>> THEN [data |-> None, log |-> Some("no_data")]
    ELSE [data |-> Some(Window(series, t)), log |-> None]

\* current / mean / std (ddof = 1) of one column of the window
ColumnStats(col) ==
    LET n  == Len(col)
        s  == SumSeq(col)
        sq == SumSeq([i \in 1 .. n |-> col[i] * col[i]])
    IN [current  |-> col[n],
        avg_5min |-> [num |-> s, den |-> n],
        std_5min |-> [ss |-> n * sq - s * s, d |-> n * (n - 1)]]

calculate_averages(data) ==
    [upload_speed |-> ColumnStats([i \in 1 .. Len(data) |-> data[i].upload_speed]),
     latency      |-> ColumnStats([i \in 1 .. Len(data) |-> data[i].latency])]

\* abs(current - mean) > 2 * std, on exact numbers: with mean = num/den and
\* std = sqrt(ss/d) both sides are non-negative, so the comparison is the
\* comparison of the squares; a NaN std (d = 0) compares False.
\* Plausible slip: one standard deviation in place of two
DeviatesOneStd(m) ==
    /\ m.std_5min.d # 0
    /\ (m.current * m.avg_5min.den - m.avg_5min.num)
         * (m.current * m.avg_5min.den - m.avg_5min.num) * m.std_5min.d
       > m.std_5min.ss * m.avg_5min.den * m.avg_5min.den

Deviates(m) ==
    /\ m.std_5min.d # 0
    /\ (m.current * m.avg_5min.den - m.avg_5min.num)
         * (m.current * m.avg_5min.den - m.avg_5min.num) * m.std_5min.d
       > 4 * m.std_5min.ss * m.avg_5min.den * m.avg_5min.den

\* Plausible slip: >= in place of > in the deviation test
DetectAnomaliesNonStrict(stats) ==
    LET AtLeast(m) ==
          /\ m.std_5min.d # 0
          /\ (m.current * m.avg_5min.den - m.avg_5min.num)
               * (m.current * m.avg_5min.den - m.avg_5min.num) * m.std_5min.d
             >= 4 * m.std_5min.ss * m.avg_5min.den * m.avg_5min.den
    IN AtLeast(stats.upload_speed) \/ AtLeast(stats.latency)

detect_simple_anomalies(stats) ==
    IF Deviates(stats.upload_speed) THEN TRUE
    ELSE IF Deviates(stats.latency) THEN TRUE
    ELSE FALSE

\* health_score of analyze_server_health, in tenths
\* Plausible slip: > in place of >= against the upload cutoffs
UploadPartStrict(current_upload, row) ==
    IF current_upload > row.optimal THEN 4
    ELSE IF current_upload > row.warning THEN 2
    ELSE 0

UploadPart(current_upload, row) ==
    IF current_upload >= row.optimal THEN 4
    ELSE IF current_upload >= row.warning THEN 2
    ELSE 0

\* Plausible slip: < in place of <= against the latency cutoffs
LatencyPartStrict(current_latency, row) ==
    IF current_latency < row.optimal THEN 6
    ELSE IF current_latency < row.warning THEN 3
    ELSE 0

LatencyPart(current_latency, row) ==
    IF current_latency <= row.optimal THEN 6
    ELSE IF current_latency <= row.warning THEN 3
    ELSE 0

\* Plausible slip: > in place of >= at the breakpoints
StatusOfStrict(health_score) ==
    IF health_score > 8 THEN "optimal"
    ELSE IF health_score > 5 THEN "good"
    ELSE IF health_score > 3 THEN "warning"
    ELSE "critical"

StatusOf(health_score) ==
    IF health_score >= 8 THEN "optimal"
    ELSE IF health_score >= 5 THEN "good"
    ELSE IF health_score >= 3 THEN "warning"
    ELSE "critical"

analyze_server_health(current_data, stats) ==
    LET current_hour == HourOf(current_data[Len(current_data)].time)
        is_peak      == current_hour \in peak_hours
        upload_row   == IF is_peak THEN thresholds.upload.peak
                        ELSE thresholds.upload.off_peak
        latency_row  == IF is_peak THEN thresholds.latency.peak
                        ELSE thresholds.latency.off_peak
        health_score == UploadPart(stats.upload_speed.current, upload_row)
                        + LatencyPart(stats.latency.current, latency_row)
    IN [status       |-> StatusOf(health_score),
        health_score |-> health_score,
        is_peak_hour |-> is_peak]

\* The server_analysis point built at lines 165-173
AnalysisPoint(stats, is_anomaly, health_analysis) ==
    [current_upload   |-> stats.upload_speed.current,
     current_latency  |-> stats.latency.current,
     avg_upload_5min  |-> stats.upload_speed.avg_5min,
     avg_latency_5min |-> stats.latency.avg_5min,
     health_status    |-> health_analysis.status,
     health_score     |-> health_analysis.health_score,
     is_anomaly       |-> IF is_anomaly THEN 1 ELSE 0,
     is_peak_hour     |-> IF health_analysis.is_peak_hour THEN 1 ELSE 0]

\* Plausible slip: an empty or unreadable window is scored as zeros and the
\* assessment written
MonitorWritesOnNoData(metrics, analysis, t, query_ok, write_ok) ==
    LET recent == get_recent_data(metrics, t, query_ok)
        zero   == [current |-> 0, avg_5min |-> [num |-> 0, den |-> 1],
                   std_5min |-> [ss |-> 0, d |-> 0]]
        stats  == IF recent.data = None
                  THEN [upload_speed |-> zero, latency |-> zero]
                  ELSE calculate_averages(recent.data[1])
        data   == IF recent.data = None THEN <<[time |-> t]>> ELSE recent.data[1]
    IN IF ~write_ok
       THEN [series |-> analysis, log |-> "process_error"]
       ELSE [series |-> Append(analysis,
                           AnalysisPoint(stats, detect_simple_anomalies(stats),
                                         analyze_server_health(data, stats))),
             log |-> IF recent.data = None THEN recent.log[1] ELSE "analysis"]

\* Plausible slip: the anomaly flag is kept from the previous assessment
\* until a tick clears it, so the tick depends on what ran before it
MonitorKeepsAnomalyFlag(metrics, analysis, t, query_ok, write_ok) ==
    LET recent == get_recent_data(metrics, t, query_ok)
    IN IF recent.data = None
       THEN [series |-> analysis, log |-> recent.log[1]]
       ELSE LET recent_data == recent.data[1]
                stats       == calculate_averages(recent_data)
                is_anomaly  == \/ detect_simple_anomalies(stats)
                               \/ /\ analysis # <<>>
                                  /\ analysis[Len(analysis)].is_anomaly = 1
                health      == analyze_server_health(recent_data, stats)
            IN IF ~write_ok
               THEN [series |-> analysis, log |-> "process_error"]
               ELSE [series |-> Append(analysis,
                                   AnalysisPoint(stats, is_anomaly, health)),
                     log |-> "analysis"]

\* Outcome of monitor_and_analyze() at time t: the server_analysis series
\* after the call and the line logged.
monitor_and_analyze(metrics, analysis, t, query_ok, write_ok) ==
    LET recent == get_recent_data(metrics, t, query_ok)
    IN IF recent.data = None
       THEN [series |-> analysis, log |-> recent.log[1]]
       ELSE LET recent_data == recent.data[1]
                stats       == calculate_averages(recent_data)
                is_anomaly  == detect_simple_anomalies(stats)
                health      == analyze_server_health(recent_data, stats)
            IN IF ~write_ok
               THEN [series |-> analysis, log |-> "process_error"]
               ELSE [series |-> Append(analysis,
                                   AnalysisPoint(stats, is_anomaly, health)),
                     log |-> "analysis"]

\* monitor.monitor_and_analyze()
AnalyzerTick ==
    /\ apc = "tick"
    /\ StoreHasRoom
    /\ \E query_ok \in BOOLEAN, write_ok \in BOOLEAN :
         LET r == monitor_and_analyze(network_metrics, server_analysis, now,
                                      query_ok, write_ok)
         IN /\ server_analysis' = r.series
            /\ alog' = r.log
    /\ apc' = "sleep"
    /\ UNCHANGED <<cpc, network_stats, clog, network_metrics, now, fn_in, fn_out, timing_vars>>

\* time.sleep(5)
AnalyzerSleep ==
    /\ apc = "sleep"
    /\ apc' = "tick"
    /\ UNCHANGED <<cpc, network_stats, clog, network_metrics, alog, server_analysis,
                   now, fn_in, fn_out, timing_vars>>

ClockTick ==
    /\ \E s \in StartTimes :
         /\ s <= now
         /\ now + ClockStep <= s + MaxClockSteps * ClockStep
    /\ now' = now + ClockStep
    /\ UNCHANGED <<cpc, network_stats, clog, network_metrics, apc, alog,
                   server_analysis, fn_in, fn_out, timing_vars>>

Init ==
    /\ cpc = "sample"
    /\ network_stats = None
    /\ clog = "start"
    /\ network_metrics = <<>>
    /\ apc = "tick"
    /\ alog = "start"
    /\ server_analysis = <<>>
    /\ now \in StartTimes
    /\ fn_in = <<>>
    /\ fn_out = <<>>
    /\ elapsed = 0
    /\ last_period = <<>>

Next ==
    \/ CollectorTick
    \/ CollectorSleep
    \/ AnalyzerTick
    \/ AnalyzerSleep
    \/ ClockTick

Spec == Init /\ [][Next]_vars

\* The collector alone, statement by statement
NextCollector ==
    \/ CollectorSample
    \/ CollectorProbe
    \/ CollectorWrite
    \/ CollectorSleep
    \/ ClockTick

SpecCollector == Init /\ [][NextCollector]_vars

(***************************************************************************)
(* The analyzer's pure functions on their own: the argument is drawn at    *)
(* the start, the step calls the function.                                 *)
(***************************************************************************)
PipelineIdle ==
    /\ cpc = "sample"
    /\ network_stats = None
    /\ clog = "start"
    /\ network_metrics = <<>>
    /\ apc = "tick"
    /\ alog = "start"
    /\ server_analysis = <<>>
    /\ now \in StartTimes
    /\ elapsed = 0
    /\ last_period = <<>>

\* One metric's statistics given as plain numbers (the mean as a fraction:
\* 100, 110 and 102.5; std None = NaN), and the same statistics as exact
\* numbers
MetricInputs ==
    [current : {80, 90, 100, 115, 120, 125, 130},
     avg     : {[num |-> 100, den |-> 1], [num |-> 220, den |-> 2],
                [num |-> 205, den |-> 2]},
     std     : {None, Some(0), Some(10)}]

ExactMetric(m) ==
    [current  |-> m.current,
     avg_5min |-> m.avg,
     std_5min |-> IF m.std = None THEN [ss |-> 0, d |-> 0]
                  ELSE [ss |-> m.std[1] * m.std[1], d |-> 1]]

InitAnomaly ==
    /\ PipelineIdle
    /\ fn_in \in [upload_speed : MetricInputs, latency : MetricInputs]
    /\ fn_out = None

CallDetectAnomalies ==
    /\ fn_out = None
    /\ fn_out' = Some(detect_simple_anomalies(
                        [upload_speed |-> ExactMetric(fn_in.upload_speed),
                         latency      |-> ExactMetric(fn_in.latency)]))
    /\ UNCHANGED <<pipeline_vars, fn_in, timing_vars>>

NextAnomaly == CallDetectAnomalies

SpecAnomaly == InitAnomaly /\ [][NextAnomaly]_vars

\* Time of the window's last record, current upload and current latency
\* around every cutoff of both threshold rows
HealthInputs ==
    [time    : {h * 60 + m : h \in 0 .. 23, m \in {0, 59}},
     upload  : {0, 24, 25, 34, 35, 49, 50, 59, 60, 74, 75, 84, 85, 100},
     latency : {0, 20, 21, 30, 31, 40, 41, 50, 51, 80, 81, 90, 100, 101}]

InitHealth ==
    /\ PipelineIdle
    /\ fn_in \in HealthInputs
    /\ fn_out = None

CallAnalyzeHealth ==
    /\ fn_out = None
    /\ fn_out' = Some(analyze_server_health(
                        <<[time |-> fn_in.time]>>,
                        [upload_speed |-> [current |-> fn_in.upload],
                         latency      |-> [current |-> fn_in.latency]]))
    /\ UNCHANGED <<pipeline_vars, fn_in, timing_vars>>

NextHealth == CallAnalyzeHealth

SpecHealth == InitHealth /\ [][NextHealth]_vars


(***************************************************************************)
(* Claims about the collector, checked under SpecCollector.                *)
(***************************************************************************)
NonNegativeRecord(r) ==
    /\ r.download_speed >= 0
    /\ r.upload_speed >= 0
    /\ r.packets_sent >= 0
    /\ r.packets_recv >= 0

\* C1: after any sequence of collector ticks, counter resets included, every
\* persisted network_metrics record has non-negative download_speed,
\* upload_speed, packets_sent and packets_recv; a write step whose record
\* violates this leaves the series as it was and the loop goes on to sleep.
C1_PersistedNonNegative ==
    /\ [](\A i \in 1 .. Len(network_metrics) : NonNegativeRecord(network_metrics[i]))
    /\ [][(cpc = "write" /\ cpc' # cpc /\ ~NonNegativeRecord(network_stats[1]))
            => (network_metrics' = network_metrics /\ cpc' = "sleep")]_vars

\* C1 witness: a record is persisted, and a later tick whose sent or received
\* counter was reset has been through the write step and is sleeping.
C1_Witness ==
    /\ cpc = "sleep"
    /\ network_stats # None
    /\ network_stats[1].latency # None
    /\ network_stats[1].upload_speed < 0
    /\ Len(network_metrics) >= 1

\* C2 (as claimed): when the counter read fails (get_network_stats yields
\* None) the tick writes nothing and the loop goes on; the failure never
\* terminates the loop.
C2_SampleFailureSkipsTick ==
    [][(cpc = "probe" /\ network_stats = None)
         => (cpc' # "exited" /\ network_metrics' = network_metrics)]_vars

\* C3 (as claimed): a tick whose sample is valid, whose probe failed and whose
\* store did not fail persists one network_metrics record.
C3_ProbeFailureStillPersists ==
    [][(/\ cpc = "write"
        /\ cpc' # cpc
        /\ network_stats[1].latency = None
        /\ NonNegativeRecord(network_stats[1])
        /\ clog' # "write_error: store")
         => Len(network_metrics') = Len(network_metrics) + 1]_vars


(***************************************************************************)
(* Claims about the two loops together, checked under Spec.                *)
(***************************************************************************)
\* C4: an analyzer tick whose trailing window holds no network_metrics record,
\* or whose query fails, leaves the server_analysis series as it was, and
\* the loop goes on to its sleep.
C4_EmptyWindowWritesNothing ==
    [][(/\ apc = "tick"
        /\ apc' # apc
        /\ \/ Window(network_metrics, now) = <<>>
           \/ alog' = "query_error")
         => (server_analysis' = server_analysis /\ apc' = "sleep")]_vars

\* C4 witness: the store holds records, all of them older than the window,
\* and the tick that found the window empty is over with nothing written.
C4_Witness ==
    /\ apc = "sleep"
    /\ alog = "no_data"
    /\ network_metrics # <<>>
    /\ Window(network_metrics, now) = <<>>
    /\ server_analysis = <<>>

\* C7: in every persisted server_analysis record health_status follows from
\* health_score (in tenths): optimal iff score >= 0.8, good iff
\* 0.5 <= score < 0.8, warning iff 0.3 <= score < 0.5, critical iff
\* score < 0.3, and no other status is written.
C7_StatusFollowsScore ==
    \A i \in 1 .. Len(server_analysis) :
        LET a == server_analysis[i]
        IN /\ a.health_status \in {"optimal", "good", "warning", "critical"}
           /\ (a.health_status = "optimal")  <=> (a.health_score >= 8)
           /\ (a.health_status = "good")     <=> (a.health_score >= 5 /\ a.health_score < 8)
           /\ (a.health_status = "warning")  <=> (a.health_score >= 3 /\ a.health_score < 5)
           /\ (a.health_status = "critical") <=> (a.health_score < 3)

\* C7 witness: an assessment with the score exactly at the 0.8 breakpoint is
\* persisted as optimal.
C7_Witness ==
    \E i \in 1 .. Len(server_analysis) :
        /\ server_analysis[i].health_score = 8
        /\ server_analysis[i].health_status = "optimal"

\* C8 (as claimed): the is_peak_hour written by an analyzer tick is 1 iff the
\* hour of the moment the tick runs is in 9..17, whatever the timestamps of
\* the window's records.
C8_PeakHourIsHourOfNow ==
    [][(server_analysis' # server_analysis)
         => (server_analysis'[Len(server_analysis')].is_peak_hour
               = IF HourOf(now) \in 9 .. 17 THEN 1 ELSE 0)]_vars

\* C10: a store failure never terminates a loop.  A collector iteration whose
\* store write fails, and an analyzer tick whose query or write fails, end
\* in the loop's sleep with both series as they were, and a sleeping loop's
\* only step is the start of the next tick.
C10_StoreFailureAbsorbed ==
    [][/\ (cpc = "sample" /\ cpc' # cpc /\ clog' = "write_error: store")
            => (cpc' = "sleep" /\ network_metrics' = network_metrics)
       /\ (apc = "tick" /\ apc' # apc /\ alog' \in {"query_error", "process_error"})
            => (apc' = "sleep" /\ server_analysis' = server_analysis)
       /\ (cpc = "sleep" /\ cpc' # cpc) => cpc' = "sample"
       /\ (apc = "sleep" /\ apc' # apc) => apc' = "tick"]_vars

\* C10 witness: the collector's last iteration met a failed store write, the
\* analyzer's last tick a failed write of its assessment, and both loops
\* are past their sleep, at the start of the next tick.
C10_Witness ==
    /\ clog = "write_error: store"
    /\ cpc = "sample"
    /\ alog = "process_error"
    /\ apc = "tick"

(***************************************************************************)
(* Claims about detect_simple_anomalies, checked under SpecAnomaly.        *)
(***************************************************************************)
\* |current - avg| > 2 * std on the plain numbers of one metric; a NaN std
\* satisfies no comparison
ExceedsTwoStd(m) ==
    /\ m.std # None
    /\ Abs(m.current * m.avg.den - m.avg.num) > 2 * m.std[1] * m.avg.den

\* C5: detect_simple_anomalies returns true iff upload_speed or latency has
\* |current - avg| > 2 * std, strictly: a deviation of exactly 2 * std is not
\* anomalous, and with std = 0 any non-zero deviation is and a zero
\* deviation is not.
C5_AnomalyIffStrictlyBeyondTwoStd ==
    fn_out # None =>
        /\ fn_out[1] = (ExceedsTwoStd(fn_in.upload_speed) \/ ExceedsTwoStd(fn_in.latency))
        /\ (\A k \in {"upload_speed", "latency"} :
               /\ fn_in[k].std # None
               /\ Abs(fn_in[k].current * fn_in[k].avg.den - fn_in[k].avg.num)
                    <= 2 * fn_in[k].std[1] * fn_in[k].avg.den)
             => fn_out[1] = FALSE
        /\ (\E k \in {"upload_speed", "latency"} :
               /\ fn_in[k].std = Some(0)
               /\ fn_in[k].current * fn_in[k].avg.den # fn_in[k].avg.num)
             => fn_out[1] = TRUE

\* C5 witness: upload deviates by exactly 2 * std (120 against mean 100,
\* std 10), latency sits on the mean of a constant window, and the call
\* has returned false.
C5_Witness ==
    /\ fn_out = Some(FALSE)
    /\ fn_in.upload_speed = [current |-> 120, avg |-> [num |-> 100, den |-> 1],
                             std |-> Some(10)]
    /\ fn_in.latency = [current |-> 100, avg |-> [num |-> 100, den |-> 1],
                        std |-> Some(0)]

(***************************************************************************)
(* Claims about analyze_server_health, checked under SpecHealth.           *)
(***************************************************************************)
\* C6: health_score (in tenths) is the upload part (4 at or above the
\* selected row's optimal upload cutoff, else 2 at or above its warning
\* cutoff, else 0) plus the latency part (6 at or below the optimal latency
\* cutoff, else 3 at or below the warning cutoff, else 0), so it lies in
\* 0 .. 10.
C6_ScoreIsSumOfParts ==
    fn_out # None =>
        LET period == IF fn_out[1].is_peak_hour THEN "peak" ELSE "off_peak"
            up     == thresholds.upload[period]
            la     == thresholds.latency[period]
            upload_part  == CASE fn_in.upload >= up.optimal -> 4
                              [] fn_in.upload < up.optimal /\ fn_in.upload >= up.warning -> 2
                              [] fn_in.upload < up.warning -> 0
            latency_part == CASE fn_in.latency <= la.optimal -> 6
                              [] fn_in.latency > la.optimal /\ fn_in.latency <= la.warning -> 3
                              [] fn_in.latency > la.warning -> 0
        IN /\ fn_out[1].health_score = upload_part + latency_part
           /\ fn_out[1].health_score \in 0 .. 10

\* C6 witness: upload exactly at the peak row's optimal cutoff and latency
\* exactly at its warning cutoff score 0.4 + 0.3.
C6_Witness ==
    /\ fn_out # None
    /\ fn_out[1].is_peak_hour
    /\ fn_in.upload = 75
    /\ fn_in.latency = 50
    /\ fn_out[1].health_score = 7

\* C9: for every hour h of 0 .. 23 handed to the scorer, the peak row
\* (upload 0.75/0.50, latency 30/50) is used for both metrics iff
\* 9 <= h <= 17, otherwise the off-peak row (upload 0.85/0.60, latency 20/40)
\* for both, and the is_peak_hour returned agrees with the row used.
C9_RowSwitchesAt9And18 ==
    fn_out # None =>
        LET h       == fn_in.time \div 60
            peak    == 9 <= h /\ h <= 17
            up_opt  == IF peak THEN 75 ELSE 85
            up_warn == IF peak THEN 50 ELSE 60
            la_opt  == IF peak THEN 30 ELSE 20
            la_warn == IF peak THEN 50 ELSE 40
        IN /\ fn_out[1].is_peak_hour = peak
           /\ fn_out[1].health_score
                = (IF fn_in.upload >= up_opt THEN 4
                   ELSE IF fn_in.upload >= up_warn THEN 2 ELSE 0)
                  + (IF fn_in.latency <= la_opt THEN 6
                     ELSE IF fn_in.latency <= la_warn THEN 3 ELSE 0)

\* C9 witness: at 18:00 an upload of 0.75 and a latency of 30 ms, optimal on
\* the peak row, are scored on the off-peak row: 0.2 + 0.3.
C9_Witness ==
    /\ fn_out # None
    /\ fn_in = [time |-> 18 * 60, upload |-> 75, latency |-> 30]
    /\ fn_out[1].is_peak_hour = FALSE
    /\ fn_out[1].health_score = 5


(***************************************************************************)
(* Cancellation.  The only stop signal the collector knows is the          *)
(* KeyboardInterrupt that main() catches at line 141; Python raises it     *)
(* at whatever statement is running when the signal arrives, and none of   *)
(* the except Exception handlers of the tick's calls catches it.           *)
(***************************************************************************)
CollectorInterrupt ==
    /\ cpc \in {"sample", "probe", "write", "sleep"}
    /\ cpc' = "exited"
    /\ clog' = "shutdown"
    /\ UNCHANGED <<network_stats, network_metrics, apc, alog, server_analysis,
                   now, fn_in, fn_out, timing_vars>>

NextCollectorCancel ==
    \/ CollectorSample
    \/ CollectorProbe
    \/ CollectorWrite
    \/ CollectorSleep
    \/ CollectorInterrupt
    \/ ClockTick

SpecCollectorCancel == Init /\ [][NextCollectorCancel]_vars

\* C11 (as claimed): the stop signal takes effect only at an iteration
\* boundary: the loop exits on cancellation only from the start of a tick
\* or from the sleep after its write, never between the sample and the
\* write of a tick that has started (here: a tick whose sample succeeded).
C11_CancelOnlyAtBoundary ==
    [][(cpc' = "exited" /\ clog' = "shutdown" /\ network_stats # None)
         => cpc \in {"sample", "sleep"}]_vars


(***************************************************************************)
(* Timing of the collector's loop, in whole seconds.  The sample blocks    *)
(* for its one-second measurement window, the probe takes up to its        *)
(* connect timeout, the store write has no timeout (bounded here by        *)
(* MaxWriteSeconds), and the loop then sleeps COLLECTION_INTERVAL - 1.     *)
(***************************************************************************)
COLLECTION_INTERVAL == 5
SampleSeconds == 1
ProbeTimeout == 2
MaxWriteSeconds == 5

TimedSample ==
    /\ cpc = "sample"
    /\ cpc' = "probe"
    /\ elapsed' = SampleSeconds
    /\ UNCHANGED <<network_stats, clog, network_metrics, apc, alog, server_analysis,
                   now, fn_in, fn_out, last_period>>

TimedProbe ==
    /\ cpc = "probe"
    /\ cpc' = "write"
    /\ \E d \in 0 .. ProbeTimeout : elapsed' = elapsed + d
    /\ UNCHANGED <<network_stats, clog, network_metrics, apc, alog, server_analysis,
                   now, fn_in, fn_out, last_period>>

TimedWrite ==
    /\ cpc = "write"
    /\ cpc' = "sleep"
    /\ \E w \in 0 .. MaxWriteSeconds : elapsed' = elapsed + w
    /\ UNCHANGED <<network_stats, clog, network_metrics, apc, alog, server_analysis,
                   now, fn_in, fn_out, last_period>>

\* time.sleep(COLLECTION_INTERVAL - 1), then the next tick starts
TimedSleep ==
    /\ cpc = "sleep"
    /\ cpc' = "sample"
    /\ last_period' = Some(elapsed + (COLLECTION_INTERVAL - 1))
    /\ elapsed' = 0
    /\ UNCHANGED <<network_stats, clog, network_metrics, apc, alog, server_analysis,
                   now, fn_in, fn_out>>

NextTiming ==
    \/ TimedSample
    \/ TimedProbe
    \/ TimedWrite
    \/ TimedSleep

SpecTiming == Init /\ [][NextTiming]_vars

\* C12 (as claimed): at the end of a tick the loop sleeps
\* max(0, period - measured_duration), so the next tick starts exactly one
\* period after this one whenever the tick's work took no longer than the
\* period, and right after the work otherwise.
C12_SleepFillsThePeriod ==
    [][(cpc = "sleep" /\ cpc' = "sample")
         => /\ last_period'[1] - elapsed
                 = IF COLLECTION_INTERVAL - elapsed > 0
                   THEN COLLECTION_INTERVAL - elapsed ELSE 0
            /\ elapsed <= COLLECTION_INTERVAL
                 => last_period' = Some(COLLECTION_INTERVAL)]_vars


(***************************************************************************)
(* The statistics of one analyzer tick as a function of the window read:   *)
(* calculate_averages followed by detect_simple_anomalies, on every window *)
(* of 1 .. MaxWindow records.                                              *)
(***************************************************************************)
MaxWindow == 6

WindowRecords == [upload_speed : {0, 50, 75}, latency : {20, 90}]

WindowInputs == UNION {[1 .. n -> WindowRecords] : n \in 1 .. MaxWindow}

InitStats ==
    /\ PipelineIdle
    /\ fn_in \in WindowInputs
    /\ fn_out = None

CallCalculateAndDetect ==
    /\ fn_out = None
    /\ fn_out' = Some([stats      |-> calculate_averages(fn_in),
                       is_anomaly |-> detect_simple_anomalies(
                                          calculate_averages(fn_in))])
    /\ UNCHANGED <<pipeline_vars, fn_in, timing_vars>>

NextStats == CallCalculateAndDetect

SpecStats == InitStats /\ [][NextStats]_vars

\* std_5min is the number zero: defined, with a zero sum of squares
StdIsZero(m) == m.std_5min.d # 0 /\ m.std_5min.ss = 0

\* C13 (as claimed): for a window of exactly one record the statistics give
\* a standard deviation of 0 for upload speed and for latency, never an
\* undefined value.
C13_OneRecordStdIsZero ==
    (fn_out # None /\ Len(fn_in) = 1)
      => /\ StdIsZero(fn_out[1].stats.upload_speed)
         /\ StdIsZero(fn_out[1].stats.latency)

ConstantColumn(col) == \A i \in 1 .. Len(col) : col[i] = col[1]

\* C17: with current the window's last value and mean / std (divisor N-1)
\* taken over the same window, a metric deviates only in a non-constant
\* column of at least 6 records; so is_anomaly is true only for a
\* non-constant window of at least 6 records.
C17_AnomalyNeedsSixVaryingRecords ==
    fn_out # None =>
      /\ Deviates(fn_out[1].stats.upload_speed)
           => /\ Len(fn_in) >= 6
              /\ ~ConstantColumn([i \in 1 .. Len(fn_in) |-> fn_in[i].upload_speed])
      /\ Deviates(fn_out[1].stats.latency)
           => /\ Len(fn_in) >= 6
              /\ ~ConstantColumn([i \in 1 .. Len(fn_in) |-> fn_in[i].latency])
      /\ fn_out[1].is_anomaly
           => /\ Len(fn_in) >= 6
              /\ \E i, j \in 1 .. Len(fn_in) : fn_in[i] # fn_in[j]

\* a window of six records, five alike and a different last one, is flagged
C17_Witness ==
    /\ fn_out # None
    /\ Len(fn_in) = 6
    /\ fn_out[1].is_anomaly
    /\ \A i \in 1 .. 5 : fn_in[i].upload_speed = 75
    /\ fn_in[6].upload_speed = 0


(***************************************************************************)
(* Claims about the two series under both loops, checked under Spec.       *)
(***************************************************************************)
IsPrefix(s, t) == Len(s) <= Len(t) /\ SubSeq(t, 1, Len(s)) = s

\* C14: under any interleaving of collector and analyzer steps both series
\* are append-only: every step leaves each series a prefix of its new value,
\* only a collector iteration changes network_metrics and only an analyzer
\* tick changes server_analysis, and a step that fails changes neither.
C14_SeriesAppendOnly ==
    [][/\ IsPrefix(network_metrics, network_metrics')
       /\ IsPrefix(server_analysis, server_analysis')
       /\ Len(network_metrics') <= Len(network_metrics) + 1
       /\ Len(server_analysis') <= Len(server_analysis) + 1
       /\ network_metrics' # network_metrics
            => cpc = "sample" /\ cpc' = "sleep" /\ clog' = "saved"
               /\ UNCHANGED <<apc, server_analysis>>
       /\ server_analysis' # server_analysis
            => apc = "tick" /\ apc' = "sleep" /\ alog' = "analysis"
               /\ UNCHANGED <<cpc, network_metrics>>
       /\ clog' \in {"main_loop_error", "write_error: TypeError",
                     "write_error: store"} /\ cpc' # cpc
            => UNCHANGED <<network_metrics, server_analysis>>
       /\ alog' \in {"query_error", "no_data", "process_error"} /\ apc' # apc
            => UNCHANGED <<network_metrics, server_analysis>>]_vars

\* both series hold records and the last step of each loop was a failed write
C14_Witness ==
    /\ Len(network_metrics) >= 1
    /\ Len(server_analysis) >= 1
    /\ clog = "write_error: store"
    /\ alog = "process_error"


(***************************************************************************)
(* Two analyzer ticks side by side: each has its own store content, its    *)
(* own earlier assessments and its own clock, and both read the same       *)
(* non-empty trailing window.                                              *)
(***************************************************************************)
MaxStored == 2

StoredRecords ==
    [upload_speed : {0, 75}, latency : {20}, time : {8 * 60 + 53, 8 * 60 + 57}]

\* the store returns a series in time order
StoredSeries ==
    {m \in UNION {[1 .. n -> StoredRecords] : n \in 1 .. MaxStored} :
        \A i \in 1 .. Len(m) - 1 : m[i].time <= m[i + 1].time}

EarlierAssessments ==
    {<<>>,
     <<[current_upload   |-> 0,
        current_latency  |-> 90,
        avg_upload_5min  |-> [num |-> 375, den |-> 6],
        avg_latency_5min |-> [num |-> 190, den |-> 6],
        health_status    |-> "critical",
        health_score     |-> 0,
        is_anomaly       |-> 1,
        is_peak_hour     |-> 1]>>}

TickContexts ==
    [metrics : StoredSeries, analysis : EarlierAssessments,
     t : {8 * 60 + 58, 9 * 60 + 1}]

InitRerun ==
    /\ PipelineIdle
    /\ fn_in \in {p \in TickContexts \X TickContexts :
                     /\ Window(p[1].metrics, p[1].t) # <<>>
                     /\ Window(p[1].metrics, p[1].t) = Window(p[2].metrics, p[2].t)}
    /\ fn_out = None

CallMonitorTwice ==
    /\ fn_out = None
    /\ fn_out' = Some(<<monitor_and_analyze(fn_in[1].metrics, fn_in[1].analysis,
                                            fn_in[1].t, TRUE, TRUE),
                        monitor_and_analyze(fn_in[2].metrics, fn_in[2].analysis,
                                            fn_in[2].t, TRUE, TRUE)>>)
    /\ UNCHANGED <<pipeline_vars, fn_in, timing_vars>>

NextRerun == CallMonitorTwice

SpecRerun == InitRerun /\ [][NextRerun]_vars

LastOf(series) == series[Len(series)]

\* C15: two analyzer ticks that read the same window write the same field
\* values, whatever the store holds outside the window, whatever assessments
\* were written before, and whatever the clock reads at the tick.
C15_SameWindowSameAssessment ==
    fn_out # None =>
      /\ Len(fn_out[1][1].series) = Len(fn_in[1].analysis) + 1
      /\ Len(fn_out[1][2].series) = Len(fn_in[2].analysis) + 1
      /\ LastOf(fn_out[1][1].series) = LastOf(fn_out[1][2].series)

\* the two ticks differ in everything but the window: store content, earlier
\* assessments and the hour of the clock
C15_Witness ==
    /\ fn_out # None
    /\ fn_in[1].metrics # fn_in[2].metrics
    /\ fn_in[1].analysis # fn_in[2].analysis
    /\ HourOf(fn_in[1].t) # HourOf(fn_in[2].t)
    /\ LastOf(fn_out[1][1].series) = LastOf(fn_out[1][2].series)


(***************************************************************************)
(* The collector's tick, statement by statement, checked under             *)
(* SpecCollector.                                                          *)
(***************************************************************************)
\* C16: the statements of a tick run in the order sample, probe, write,
\* sleep; the series changes in the write statement only, which runs with
\* both measurements taken and appends at most one record; it appends exactly
\* one, holding the tick's measurements, when the sample is non-negative, the
\* probe succeeded and the store accepted the write.
C16_OneRecordPerTick ==
    [][/\ cpc' # cpc
            => \/ cpc = "sample" /\ cpc' = "probe"
               \/ cpc = "probe" /\ cpc' \in {"write", "exited"}
               \/ cpc = "write" /\ cpc' = "sleep"
               \/ cpc = "sleep" /\ cpc' = "sample"
       /\ network_metrics' # network_metrics
            => cpc = "write" /\ cpc' = "sleep"
       /\ (cpc = "write" /\ cpc' = "sleep")
            => /\ network_stats # None
               /\ Len(network_metrics') \in {Len(network_metrics),
                                             Len(network_metrics) + 1}
               /\ IsPrefix(network_metrics, network_metrics')
               /\ (/\ NonNegativeRecord(network_stats[1])
                   /\ network_stats[1].latency # None
                   /\ clog' # "write_error: store")
                    => /\ Len(network_metrics') = Len(network_metrics) + 1
                       /\ LastOf(network_metrics').upload_speed
                            = network_stats[1].upload_speed
                       /\ LastOf(network_metrics').latency
                            = network_stats[1].latency[1]
                       /\ LastOf(network_metrics').time = now]_vars

\* two ticks have each appended their record and the loop is sleeping
C16_Witness ==
    /\ cpc = "sleep"
    /\ clog = "saved"
    /\ Len(network_metrics) = 2


(***************************************************************************)
(* The status as a function of the two current values, checked under       *)
(* SpecHealth.                                                             *)
(***************************************************************************)
\* the comparisons of an input against the optimal and warning cutoffs of
\* the row its hour selects
CutoffSides(in) ==
    LET period == IF HourOf(in.time) \in peak_hours THEN "peak" ELSE "off_peak"
        up     == thresholds.upload[period]
        la     == thresholds.latency[period]
    IN <<in.upload >= up.optimal, in.upload >= up.warning,
         in.latency <= la.optimal, in.latency <= la.warning>>

HealthOf(in) ==
    analyze_server_health(<<[time |-> in.time]>>,
                          [upload_speed |-> [current |-> in.upload],
                           latency      |-> [current |-> in.latency]])

\* C18: in either threshold row the status is optimal iff latency is at or
\* below the optimal latency cutoff and upload at or above the warning upload
\* cutoff, and critical iff latency is above the warning latency cutoff and
\* upload below the optimal upload cutoff; two inputs of the same hour that
\* compare alike against the optimal and warning cutoffs get the same score
\* and status wherever they lie relative to the critical cutoffs.
C18_StatusFromOptimalAndWarningCutoffs ==
    fn_out # None =>
        LET period == IF fn_out[1].is_peak_hour THEN "peak" ELSE "off_peak"
            up     == thresholds.upload[period]
            la     == thresholds.latency[period]
        IN /\ (fn_out[1].status = "optimal")
                <=> (fn_in.latency <= la.optimal /\ fn_in.upload >= up.warning)
           /\ (fn_out[1].status = "critical")
                <=> (fn_in.latency > la.warning /\ fn_in.upload < up.optimal)
           /\ \A other \in HealthInputs :
                (other.time = fn_in.time /\ CutoffSides(other) = CutoffSides(fn_in))
                  => /\ HealthOf(other).health_score = fn_out[1].health_score
                     /\ HealthOf(other).status = fn_out[1].status

\* upload in the warning band and latency exactly at the optimal cutoff of
\* the peak row: optimal with a score of 0.8
C18_Witness ==
    /\ fn_out # None
    /\ fn_out[1].is_peak_hour
    /\ fn_in.upload = 50
    /\ fn_in.latency = 30
    /\ fn_out[1].status = "optimal"
    /\ fn_out[1].health_score = 8


(***************************************************************************)
(* dashboard.py: one refresh of the page, as a function of the result set  *)
(* the store returns for the selected range.  Times are in seconds.        *)
(***************************************************************************)
MaxRows == 3

ResultRows ==
    [time : {0, 5, 10, 70}, download_speed : {0, 100}, packets_sent : {10, 20}]

\* the rows of a result set are keyed by time: one row per time, in order
ResultSets ==
    {r \in UNION {[1 .. n -> ResultRows] : n \in 0 .. MaxRows} :
        \A i \in 1 .. Len(r) - 1 : r[i].time < r[i + 1].time}

\* get_data: the empty frame for an empty result, else the rows with the
\* packet rate added, diff() / diff() seconds, NaN (None) in the first row
get_data(result) ==
    IF Len(result) = 0 THEN <<>>
    ELSE [i \in 1 .. Len(result) |->
            [time             |-> result[i].time,
             download_speed   |-> result[i].download_speed,
             packets_sent     |-> result[i].packets_sent,
             packets_sent_rate |->
                IF i = 1 THEN None
                ELSE Some([num |-> result[i].packets_sent - result[i - 1].packets_sent,
                           den |-> result[i].time - result[i - 1].time])]]

\* df[column].iloc[-k]: position -k from the end, IndexError when the frame
\* has fewer than k rows
IlocInBounds(df, k) == k <= Len(df)

Iloc(df, k) == df[Len(df) + 1 - k]

\* the body of main()'s loop: the warning on an empty frame, else the
\* metrics, each made of the last row and its difference to the row before
refresh(result) ==
    LET df == get_data(result)
    IN IF df = <<>>
       THEN [outcome |-> "warning", metrics |-> None]
       ELSE IF ~IlocInBounds(df, 1) \/ ~IlocInBounds(df, 2)
       THEN [outcome |-> "IndexError", metrics |-> None]
       ELSE [outcome |-> "rendered",
             metrics |-> Some([download_speed |-> Iloc(df, 1).download_speed,
                               download_delta |-> Iloc(df, 1).download_speed
                                                  - Iloc(df, 2).download_speed,
                               packets_sent_rate |-> Iloc(df, 1).packets_sent_rate])]

InitDashboard ==
    /\ PipelineIdle
    /\ fn_in \in ResultSets
    /\ fn_out = None

CallRefresh ==
    /\ fn_out = None
    /\ fn_out' = Some(refresh(fn_in))
    /\ UNCHANGED <<pipeline_vars, fn_in, timing_vars>>

NextDashboard == CallRefresh

SpecDashboard == InitDashboard /\ [][NextDashboard]_vars

\* C19 (as claimed): a refresh ends without an unhandled error for every
\* result set: on an empty one the warning is shown and no metric rendered,
\* on one of any size >= 1, whatever the gaps between its rows, the metrics
\* are rendered.
C19_RefreshNeverFails ==
    fn_out # None =>
      /\ fn_out[1].outcome # "IndexError"
      /\ Len(fn_in) = 0 => (fn_out[1].outcome = "warning" /\ fn_out[1].metrics = None)
      /\ Len(fn_in) >= 1 => fn_out[1].outcome = "rendered"

====
